---- MODULE Spec2Model ----
(***************************************************************************)
(* Model of the spectral ocean simulation of src/src/simulation.rs:        *)
(* Simulation::init, Simulation::run and Simulation::run_ifft_2d, as the   *)
(* host records command buffers, submits them to the queue and waits for   *)
(* their fences, and as the device executes the recorded commands.         *)
(*                                                                         *)
(* A command buffer is the sequence of its recorded commands.  The device  *)
(* executes the commands of a submitted buffer one at a time and in order  *)
(* (vulkano's AutoCommandBufferBuilder inserts the barriers between the    *)
(* commands of one buffer), and one command is the unit of execution.      *)
(* The content of an image is abstracted to a record that names which      *)
(* kernel produced it, in which step, and how far the transform has got.   *)
(*                                                                         *)
(* Further specifications cover the event loop of src/src/main.rs around   *)
(* the simulation (SpecFrame), the frame of the earlier renderer of        *)
(* src/src/render.rs with src/src/render/simulation.rs (SpecRender), a     *)
(* repeated Simulation::init (SpecReinit), run_ifft_2d for any grid size   *)
(* (SpecAnySize), the conj_spec dispatch cell by cell (SpecConj),          *)
(* generate_gaussian_noise in u32 arithmetic (SpecNoise), the stage        *)
(* machine of the two renderers (SpecStage), the camera and the input      *)
(* manager of src/src/engine (SpecCamera), the key handling of main        *)
(* (SpecKeys) and Water::get_draw_batches (SpecWater).                     *)
(***************************************************************************)
EXTENDS Integers, Sequences, FiniteSets, TLC

\* ---------------------------------------------------------------- bounds
MaxSteps == 2
MaxLog == 3
MaxDt == 2
MaxInits == 2
MaxDraws == 2
MaxCalls == 4
MaxDelta == 40000
MaxMouse == 200
MaxInstances == 4
MaxRes == 3

\* ------------------------------------------------------------- constants
TEXTURE_SIZE == 1024

\* mode values of fft_shader::ty::PushConstants
MODE_IH == 2
MODE_IV == 3
MODE_SCALE == 4
MODE_PERMUTE == 5

VARIABLES
    pc,          \* position of the host thread
    caller,      \* who called run_ifft_2d: "run", or "call" for a lone call
    step,        \* number of Simulation::run calls begun
    k,           \* index of the current run_ifft_2d call site of run (1..4)
    args,        \* arguments of the current run_ifft_2d call
    size,        \* the grid size N used by the call
    log_size,    \* local log_size of run_ifft_2d
    ping_pong,   \* local ping_pong of run_ifft_2d
    i,           \* loop variable of the butterfly loops
    commands,    \* the command buffer builder being recorded
    gpu,         \* queue of submitted command buffers not yet completed
    img,         \* abstract content of every image
    executed,    \* commands the device has executed in the current step
    called,      \* inputs of the run_ifft_2d calls begun in the current step
    time,        \* Simulation::time, the simulation time cursor
    dt,          \* delta_time of the current frame of the event loop
    inits,       \* number of Simulation::init calls begun
    grid,        \* cell values of spec_hk and spec_h0 on a small grid
    rend,        \* Renderer / Render: render_stage, commands, acquire_future
    cam,         \* Camera: yaw, pitch, is_changed
    inputs,      \* InputManager, and move_dir and the held keys of main
    water        \* Water: instances and the batches last returned

\* the application around the simulation
app == <<rend, cam, inputs, water>>

\* the state outside one Simulation::run
ext == <<time, dt, inits, grid, app>>

\* the state of the simulation and of the queue
sim == <<pc, caller, step, k, args, size, log_size, ping_pong, i,
         commands, gpu, img, executed, called>>

vars == <<pc, caller, step, k, args, size, log_size, ping_pong, i,
          commands, gpu, img, executed, called, ext>>

\* ----------------------------------------------------------------- images
Channels == {"dx_dz", "dy_dxz", "dyx_dyz", "dxx_dzz"}

Images == {"noise_image", "spec_hk", "spec_h0", "waves_data",
           "displacement_map", "derivatives_map", "turbulence_map",
           "camera_depth_map", "foam_map",
           "precomputed_data", "buffer", "spec_ht"} \cup Channels

\* create_image: every image of the Simulation is TEXTURE_SIZE wide and high
ImageSide(x) == TEXTURE_SIZE

\* content of an image nothing has written yet
Blank == [ch |-> "none", step |-> 0, n |-> -1, perm |-> FALSE, scal |-> FALSE]

\* ------------------------------------------------------- pure functions
RECURSIVE Log2Floor(_)
Log2Floor(n) == IF n <= 1 THEN 0 ELSE 1 + Log2Floor(n \div 2)

\* u32 arithmetic, on the two 16-bit halves of each operand
HALF == 65536

\* a * b does not fit in 32 bits
MulOverflows(a, b) ==
    LET al == a % HALF
        ah == a \div HALF
        bl == b % HALF
        bh == b \div HALF
    IN  \/ ah * bh > 0
        \/ ah * bl + al * bh + ((al * bl) \div HALF) >= HALF

\* a * b modulo 2^32
WrappingMul(a, b) ==
    LET al == a % HALF
        ah == a \div HALF
        bl == b % HALF
        bh == b \div HALF
        lo == al * bl
        hi == (ah * bl + al * bh + (lo \div HALF)) % HALF
    IN  hi * HALF + (lo % HALF)

\* (TEXTURE_SIZE as f32).log2() as u32
LogSize(n) == Log2Floor(n)

Toggle_stuck(p) == p

\* ping_pong ^= 1
Toggle(p) == (p + 1) % 2

\* ------------------------------------------------------------- commands
\* One recorded command: the pipeline (op), its push constants (size, stage,
\* ping_pong, mode; t for the time or dlt push constant of the kernels that
\* have one) and the images of its descriptor set in binding order.
Cmd(op, mode, stage, pp, bind, n) ==
    [op |-> op, mode |-> mode, stage |-> stage, pp |-> pp,
     bind |-> bind, size |-> n, t |-> 0]

\* run_compute_shader: bind pipeline and descriptor set, push constants,
\* record one dispatch
RunComputeShader(cmds, c) == Append(cmds, c)

\* commands.dispatch(WORKGROUP_SIZE): one more dispatch of whatever pipeline,
\* descriptor set and push constants are bound, i.e. of the last dispatch
Dispatch(cmds) == Append(cmds, cmds[Len(cmds)])

FftCmd(mode, stage, pp) ==
    Cmd("fft", mode, stage, pp,
        <<"precomputed_data", args.input, args.buffer>>, size)

CopyCmd(src, dst) == Cmd("copy", 0, 0, 0, <<src, dst>>, size)

InitSpecCmd ==
    Cmd("init_spec", 0, 0, 0, <<"waves_data", "spec_hk", "noise_image">>,
        TEXTURE_SIZE)

FftInitCmd_half ==
    Cmd("fft_init", 0, 0, 0, <<"precomputed_data">>, TEXTURE_SIZE \div 2)

FftInitCmd == Cmd("fft_init", 0, 0, 0, <<"precomputed_data">>, TEXTURE_SIZE)

ConjSpecCmd_swapped ==
    Cmd("conj_spec", 0, 0, 0, <<"spec_h0", "spec_hk">>, TEXTURE_SIZE)

ConjSpecCmd == Cmd("conj_spec", 0, 0, 0, <<"spec_hk", "spec_h0">>, TEXTURE_SIZE)

\* push constants of the time evolver: time: self.time
TimeSpecCmd ==
    [Cmd("time_spec", 0, 0, 0,
         <<"waves_data", "spec_h0", "dx_dz", "dy_dxz", "dyx_dyz", "dxx_dzz">>,
         TEXTURE_SIZE) EXCEPT !.t = time]

MergerBindings_foam ==
    <<"displacement_map", "derivatives_map", "foam_map",
      "dx_dz", "dy_dxz", "dyx_dyz", "dxx_dzz">>

\* descriptor set of the texture merger dispatch of run
MergerBindings ==
    <<"displacement_map", "derivatives_map", "turbulence_map",
      "dx_dz", "dy_dxz", "dyx_dyz", "dxx_dzz">>

\* push constants of the texture merger: dlt: self.time
MergerCmd ==
    [Cmd("merger", 0, 0, 0, MergerBindings, TEXTURE_SIZE) EXCEPT !.t = time]

\* the draw of the water plane: the descriptor set main builds for it
DrawCmd ==
    Cmd("draw", 0, 0, 0,
        <<"displacement_map", "derivatives_map", "turbulence_map",
          "camera_depth_map", "foam_map">>, TEXTURE_SIZE)

\* ------------------------------------------------------ the kernels
\* The shaders are not part of the Rust sources; what each kernel reads
\* and writes among its bindings follows the component contracts.

\* the channel each binding slot of the time evolver / compositor stands for
ChannelOfSlot == <<"dx_dz", "dy_dxz", "dyx_dyz", "dxx_dzz">>

IsButterfly(c) == c.op = "fft" /\ c.mode \in {MODE_IH, MODE_IV}

\* a butterfly stage with ping_pong = 1 reads descriptor binding 1 (input,
\* bind[2]) and writes binding 2 (buffer, bind[3]); with ping_pong = 0 it
\* reads binding 2 and writes binding 1
ReadBuf(c) == IF c.pp = 1 THEN c.bind[2] ELSE c.bind[3]
WriteBuf(c) == IF c.pp = 1 THEN c.bind[3] ELSE c.bind[2]

Reads(c) ==
    CASE c.op = "init_spec" -> {c.bind[3]}
      [] c.op = "fft_init"  -> {}
      [] c.op = "conj_spec" -> {c.bind[1]}
      [] c.op = "time_spec" -> {c.bind[1], c.bind[2]}
      [] c.op = "merger"    -> {c.bind[j] : j \in 4..7}
      [] c.op = "copy"      -> {c.bind[1]}
      [] c.op = "draw"      -> {c.bind[j] : j \in 1..Len(c.bind)}
      [] c.op = "h0_spectrum" -> {}
      [] c.op = "ht_spectrum" -> {c.bind[1]}
      [] IsButterfly(c)     -> {c.bind[1], ReadBuf(c)}
      [] OTHER              -> {c.bind[2]}

Writes(c) ==
    CASE c.op = "init_spec" -> {c.bind[1], c.bind[2]}
      [] c.op = "fft_init"  -> {c.bind[1]}
      [] c.op = "conj_spec" -> {c.bind[2]}
      [] c.op = "time_spec" -> {c.bind[j] : j \in 3..6}
      [] c.op = "merger"    -> {c.bind[j] : j \in 1..3}
      [] c.op = "copy"      -> {c.bind[2]}
      [] c.op = "draw"      -> {}
      [] c.op = "h0_spectrum" -> {c.bind[1]}
      [] c.op = "ht_spectrum" -> {c.bind[2]}
      [] IsButterfly(c)     -> {WriteBuf(c)}
      [] OTHER              -> {c.bind[2]}

Val(tag, st, ok) ==
    [ch |-> tag, step |-> st, n |-> IF ok THEN 0 ELSE -1,
     perm |-> FALSE, scal |-> FALSE]

Ready(v, tag) == v.ch = tag /\ v.n = 0

\* index among the 2 * log2(N) butterfly stages that command c computes
StageIndex(c) ==
    IF c.mode = MODE_IH THEN c.stage ELSE LogSize(c.size) + c.stage

\* a fully transformed channel of step st, as the compositor expects it
Transformed(v, tag, st, n) ==
    v.ch = tag /\ v.step = st /\ v.n = 2 * LogSize(n) /\ v.perm

\* what command c leaves in the image x it writes, from the contents im
NewVal(c, x, im, st) ==
    CASE c.op = "init_spec" ->
           Val(IF x = c.bind[1] THEN "waves" ELSE "hk", 0,
               Ready(im[c.bind[3]], "noise"))
      [] c.op = "fft_init" ->
           [ch |-> "table", step |-> 0, n |-> c.size,
            perm |-> FALSE, scal |-> FALSE]
      [] c.op = "conj_spec" -> Val("h0", 0, Ready(im[c.bind[1]], "hk"))
      [] c.op = "time_spec" ->
           Val(ChannelOfSlot[(CHOOSE j \in 3..6 : c.bind[j] = x) - 2], st,
               Ready(im[c.bind[1]], "waves") /\ Ready(im[c.bind[2]], "h0"))
      [] c.op = "merger" ->
           Val("merged", st,
               \A j \in 1..4 :
                   Transformed(im[c.bind[3 + j]], ChannelOfSlot[j], st, c.size))
      [] c.op = "copy" -> im[c.bind[1]]
      [] c.op = "h0_spectrum" -> Val("h0", st, TRUE)
      [] c.op = "ht_spectrum" -> Val("ht", st, Ready(im[c.bind[1]], "h0"))
      [] IsButterfly(c) ->
           LET v == im[ReadBuf(c)]
               ok == /\ v.n = StageIndex(c)
                     /\ im[c.bind[1]].ch = "table"
                     /\ im[c.bind[1]].n = c.size
           IN  [v EXCEPT !.n = IF ok THEN v.n + 1 ELSE -1]
      [] c.op = "fft" /\ c.mode = MODE_PERMUTE ->
           [im[c.bind[2]] EXCEPT !.perm = TRUE]
      [] OTHER -> [im[c.bind[2]] EXCEPT !.scal = TRUE]

\* the device executes one command
Exec(c, im, st) ==
    [x \in Images |-> IF x \in Writes(c) THEN NewVal(c, x, im, st) ELSE im[x]]

\* ------------------------------------------------------------ the host
NoArgs ==
    [input |-> "none", buffer |-> "none", output_to_input |-> FALSE,
     scale |-> FALSE, permute |-> FALSE]

CallArgs(input) ==
    [input |-> input, buffer |-> "buffer", output_to_input |-> TRUE,
     scale |-> FALSE, permute |-> TRUE]

Calls_skip ==
    <<CallArgs("dx_dz"), CallArgs("dy_dxz"), CallArgs("dyx_dyz")>>

Calls_dup ==
    <<CallArgs("dx_dz"), CallArgs("dy_dxz"), CallArgs("dyx_dyz"),
      CallArgs("dyx_dyz")>>

\* the run_ifft_2d calls of run, in program order
Calls ==
    <<CallArgs("dx_dz"), CallArgs("dy_dxz"), CallArgs("dyx_dyz"),
      CallArgs("dxx_dzz")>>

FenceSignaled_nowait == TRUE

FenceSignaled_ready == IF gpu = <<>> THEN TRUE ELSE Len(Head(gpu)) <= 1

\* .wait(None) on the fence of the submitted command buffer
FenceSignaled == gpu = <<>>

\* images as Simulation::new leaves them: only the noise is uploaded
None == "None"

\* Renderer::new / Render::new
NoRend ==
    [kind |-> "Renderer", stage |-> "Stopped", commands |-> None,
     acquire_future |-> FALSE, pending |-> FALSE,
     last |-> "new", out_of_order |-> FALSE, acted |-> FALSE]

\* Camera::new
NoCam ==
    [yaw |-> 0, pitch |-> 0, is_changed |-> TRUE, computed |-> 0,
     last |-> "new"]

\* InputManager::new, and move_dir of main with no key held
NoInput ==
    [actions |-> {}, mouse_delta |-> <<0, 0>>, held |-> {},
     move_dir |-> [x |-> 0, y |-> 0, z |-> 0], fresh |-> FALSE]

NoWater == [instances |-> <<>>, batches |-> <<>>]

AppIdle ==
    /\ rend = NoRend
    /\ cam = NoCam
    /\ inputs = NoInput
    /\ water = NoWater

\* no cell values are tracked
NoGrid == [hk |-> <<>>, h0 |-> <<>>]

NewImages == [x \in Images |-> IF x = "noise_image" THEN Val("noise", 0, TRUE)
                                                    ELSE Blank]

Init ==
    /\ pc = "init_rec0"
    /\ caller = "run"
    /\ step = 0
    /\ k = 0
    /\ args = NoArgs
    /\ size = TEXTURE_SIZE
    /\ log_size = 0
    /\ ping_pong = 0
    /\ i = 0
    /\ commands = <<>>
    /\ gpu = <<>>
    /\ img = NewImages
    /\ executed = <<>>
    /\ called = <<>>
    /\ time = 0
    /\ dt = 0
    /\ inits = 0
    /\ grid = NoGrid
    /\ AppIdle

\* builder.build().execute(queue).then_signal_fence_and_flush()
Submit(from, to) ==
    /\ pc = from
    /\ gpu' = Append(gpu, commands)
    /\ commands' = <<>>
    /\ pc' = to
    /\ UNCHANGED <<caller, step, k, args, size, log_size, ping_pong, i, img,
                   executed, called, ext>>

\* .wait(None): the host blocks until the fence is signaled
Await(from, to) ==
    /\ pc = from
    /\ FenceSignaled
    /\ pc' = to
    /\ UNCHANGED <<caller, step, k, args, size, log_size, ping_pong, i,
                   commands, gpu, img, executed, called, ext>>

\* ---- Simulation::init
InitRecord0 ==
    /\ pc = "init_rec0"
    /\ commands' = RunComputeShader(RunComputeShader(<<>>, InitSpecCmd),
                                    FftInitCmd)
    /\ pc' = "init_flush0"
    /\ inits' = inits + 1
    /\ UNCHANGED <<caller, step, k, args, size, log_size, ping_pong, i, gpu,
                   img, executed, called, time, dt, grid, app>>

InitSubmit0 == Submit("init_flush0", "init_wait0")

InitWait0 == Await("init_wait0", "init_rec1")

InitRecord1 ==
    /\ pc = "init_rec1"
    /\ commands' = RunComputeShader(<<>>, ConjSpecCmd)
    /\ pc' = "init_flush1"
    /\ UNCHANGED <<caller, step, k, args, size, log_size, ping_pong, i, gpu,
                   img, executed, called, ext>>

InitSubmit1 == Submit("init_flush1", "init_wait1")

InitWait1 == Await("init_wait1", "idle")

\* ---- Simulation::run
RunRecord0 ==
    /\ pc = "idle"
    /\ step < MaxSteps
    /\ step' = step + 1
    /\ executed' = <<>>
    /\ called' = <<>>
    /\ commands' = RunComputeShader(<<>>, TimeSpecCmd)
    /\ pc' = "run_flush0"
    /\ UNCHANGED <<caller, k, args, size, log_size, ping_pong, i, gpu, img,
                   ext>>

RunSubmit0 == Submit("run_flush0", "run_wait0")

RunWait0 ==
    /\ pc = "run_wait0"
    /\ FenceSignaled
    /\ k' = 1
    /\ pc' = "run_call"
    /\ UNCHANGED <<caller, step, args, size, log_size, ping_pong, i,
                   commands, gpu, img, executed, called, ext>>

RunCall ==
    /\ pc = "run_call"
    /\ k <= Len(Calls)
    /\ args' = Calls[k]
    /\ pc' = "ifft_begin"
    /\ UNCHANGED <<caller, step, k, size, log_size, ping_pong, i, commands,
                   gpu, img, executed, called, ext>>

RunRecord1 ==
    /\ pc = "run_call"
    /\ k > Len(Calls)
    /\ commands' = RunComputeShader(<<>>, MergerCmd)
    /\ pc' = "run_flush1"
    /\ UNCHANGED <<caller, step, k, args, size, log_size, ping_pong, i, gpu,
                   img, executed, called, ext>>

RunSubmit1 == Submit("run_flush1", "run_wait1")

RunWait1 == Await("run_wait1", "idle")

\* ---- Simulation::run_ifft_2d
IfftBegin ==
    /\ pc = "ifft_begin"
    /\ log_size' = LogSize(size)
    /\ ping_pong' = 0
    /\ commands' = <<>>
    /\ i' = 0
    /\ called' = Append(called, args.input)
    /\ pc' = "ifft_h"
    /\ UNCHANGED <<caller, step, k, args, size, gpu, img, executed, ext>>

\* one iteration of a butterfly loop, or the exit of the loop
Butterfly(from, mode, to) ==
    /\ pc = from
    /\ IF i < log_size
       THEN /\ ping_pong' = Toggle(ping_pong)
            /\ commands' =
                   Dispatch(RunComputeShader(commands,
                                FftCmd(mode, i, Toggle(ping_pong))))
            /\ i' = i + 1
            /\ pc' = pc
       ELSE /\ i' = 0
            /\ pc' = to
            /\ UNCHANGED <<ping_pong, commands>>
    /\ UNCHANGED <<caller, step, k, args, size, log_size, gpu, img, executed,
                   called, ext>>

IfftHorizontal == Butterfly("ifft_h", MODE_IH, "ifft_v")

IfftVertical == Butterfly("ifft_v", MODE_IV, "ifft_copy")

CopyToInput_flipped(pp, o2i) == pp = 0 /\ o2i

\* if ping_pong == 1 && output_to_input
CopyToInput(pp, o2i) == pp = 1 /\ o2i

CopyToBuffer_any(pp, o2i) == pp = 0

\* if ping_pong == 0 && !output_to_input
CopyToBuffer(pp, o2i) == pp = 0 /\ ~o2i

IfftCopy ==
    /\ pc = "ifft_copy"
    /\ LET c1 == IF CopyToInput(ping_pong, args.output_to_input)
                 THEN Append(commands, CopyCmd(args.buffer, args.input))
                 ELSE commands
           c2 == IF CopyToBuffer(ping_pong, args.output_to_input)
                 THEN Append(c1, CopyCmd(args.input, args.buffer))
                 ELSE c1
       IN  commands' = c2
    /\ pc' = "ifft_permute"
    /\ UNCHANGED <<caller, step, k, args, size, log_size, ping_pong, i, gpu,
                   img, executed, called, ext>>

\* if permute
PermuteRequested(a) == a.permute

ScaleRequested_permute(a) == a.permute

\* if scale
ScaleRequested(a) == a.scale

IfftPermute ==
    /\ pc = "ifft_permute"
    /\ commands' = IF PermuteRequested(args)
                   THEN RunComputeShader(commands,
                            FftCmd(MODE_PERMUTE, 0, ping_pong))
                   ELSE commands
    /\ pc' = "ifft_scale"
    /\ UNCHANGED <<caller, step, k, args, size, log_size, ping_pong, i, gpu,
                   img, executed, called, ext>>

IfftScale ==
    /\ pc = "ifft_scale"
    /\ commands' = IF ScaleRequested(args)
                   THEN RunComputeShader(commands,
                            FftCmd(MODE_SCALE, 0, ping_pong))
                   ELSE commands
    /\ pc' = "ifft_flush"
    /\ UNCHANGED <<caller, step, k, args, size, log_size, ping_pong, i, gpu,
                   img, executed, called, ext>>

IfftSubmit == Submit("ifft_flush", "ifft_wait")

\* the wait of run_ifft_2d and its return to the caller
IfftWait ==
    /\ pc = "ifft_wait"
    /\ FenceSignaled
    /\ IF caller = "run"
       THEN pc' = "run_call" /\ k' = k + 1
       ELSE pc' = "returned" /\ k' = k
    /\ UNCHANGED <<caller, step, args, size, log_size, ping_pong, i,
                   commands, gpu, img, executed, called, ext>>

\* ---- the device
GpuExec ==
    /\ gpu # <<>>
    /\ LET cb == Head(gpu)
       IN  IF cb = <<>>
           THEN /\ gpu' = Tail(gpu)
                /\ UNCHANGED <<img, executed>>
           ELSE /\ img' = Exec(Head(cb), img, step)
                /\ executed' = Append(executed, Head(cb))
                /\ gpu' = IF Len(cb) = 1 THEN Tail(gpu)
                                         ELSE <<Tail(cb)>> \o Tail(gpu)
    /\ UNCHANGED <<pc, caller, step, k, args, size, log_size, ping_pong, i,
                   commands, called, ext>>

\* any unwrap() / expect() of init, run or run_ifft_2d fails: the thread
\* panics where it stands
Panic ==
    /\ pc \notin {"idle", "returned", "panicked"}
    /\ pc' = "panicked"
    /\ UNCHANGED <<caller, step, k, args, size, log_size, ping_pong, i,
                   commands, gpu, img, executed, called, ext>>

Next ==
    \/ InitRecord0 \/ InitSubmit0 \/ InitWait0
    \/ InitRecord1 \/ InitSubmit1 \/ InitWait1
    \/ RunRecord0 \/ RunSubmit0 \/ RunWait0 \/ RunCall
    \/ IfftBegin \/ IfftHorizontal \/ IfftVertical \/ IfftCopy
    \/ IfftPermute \/ IfftScale \/ IfftSubmit \/ IfftWait
    \/ RunRecord1 \/ RunSubmit1 \/ RunWait1
    \/ GpuExec \/ Panic

Spec == Init /\ [][Next]_vars

\* ---- one call of run_ifft_2d on its own, for any flags and any size
Sizes == {2 ^ e : e \in 0..MaxLog} \cup {TEXTURE_SIZE}

InitCallWith(sizes) ==
    /\ pc = "ifft_begin"
    /\ caller = "call"
    /\ step = 1
    /\ k = 0
    /\ args \in [input : {"dx_dz"}, buffer : {"buffer"},
                 output_to_input : BOOLEAN, scale : BOOLEAN,
                 permute : BOOLEAN]
    /\ size \in sizes
    /\ log_size = 0
    /\ ping_pong = 0
    /\ i = 0
    /\ commands = <<>>
    /\ gpu = <<>>
    /\ img = [x \in Images |->
                CASE x = "noise_image" -> Val("noise", 0, TRUE)
                  [] x = "precomputed_data" ->
                       [ch |-> "table", step |-> 0, n |-> size,
                        perm |-> FALSE, scal |-> FALSE]
                  [] x = "dx_dz" -> Val("dx_dz", 1, TRUE)
                  [] OTHER -> Blank]
    /\ executed = <<>>
    /\ called = <<>>
    /\ time = 0
    /\ dt = 0
    /\ inits = 1
    /\ grid = NoGrid
    /\ AppIdle

InitCall == InitCallWith(Sizes)

NextCall ==
    \/ IfftBegin \/ IfftHorizontal \/ IfftVertical \/ IfftCopy
    \/ IfftPermute \/ IfftScale \/ IfftSubmit \/ IfftWait
    \/ GpuExec \/ Panic

SpecCall == InitCall /\ [][NextCall]_vars

\* ---- generate_gaussian_noise(size), for powers of two up to the first
\* whose square does not fit in a u32
NoiseSizes == {2 ^ e : e \in 0..(MaxLog + 1)} \cup {HALF}

InitNoise ==
    /\ pc = "noise_begin"
    /\ caller = "new"
    /\ step = 0
    /\ k = 0
    /\ args = NoArgs
    /\ size \in NoiseSizes
    /\ log_size = 0
    /\ ping_pong = 0
    /\ i = 0
    /\ commands = <<>>
    /\ gpu = <<>>
    /\ img = [x \in Images |-> Blank]
    /\ executed = <<>>
    /\ called = <<>>
    /\ time = 0
    /\ dt = 0
    /\ inits = 0
    /\ grid = NoGrid
    /\ AppIdle

\* Vec::with_capacity((size * size) as usize): an overflowing size * size
\* panics in a build with overflow checks and wraps in one without
NoiseBegin ==
    /\ pc = "noise_begin"
    /\ \/ pc' = "noise_loop"
       \/ MulOverflows(size, size) /\ pc' = "panicked"
    /\ UNCHANGED <<caller, step, k, args, size, log_size, ping_pong, i,
                   commands, gpu, img, executed, called, ext>>

\* one iteration of for _ in 0..(size * size): data.push(..); i is
\* data.len()
NoisePush ==
    /\ pc = "noise_loop"
    /\ i < WrappingMul(size, size)
    /\ i' = i + 1
    /\ UNCHANGED <<pc, caller, step, k, args, size, log_size, ping_pong,
                   commands, gpu, img, executed, called, ext>>

\* the loop is over and data is returned
NoiseReturn ==
    /\ pc = "noise_loop"
    /\ i = WrappingMul(size, size)
    /\ pc' = "noise_done"
    /\ UNCHANGED <<caller, step, k, args, size, log_size, ping_pong, i,
                   commands, gpu, img, executed, called, ext>>

NextNoise == NoiseBegin \/ NoisePush \/ NoiseReturn

SpecNoise == InitNoise /\ [][NextNoise]_vars

\* ---- the conj_spec dispatch of init, cell by cell.  The kernel is not
\* part of the Rust sources; it follows the contract of the spectrum
\* initializer: every invocation (x, y) reads spec_hk at its own cell and at
\* the mirrored cell and writes the pair h0(k), conj(h0(-k)) to spec_h0.
ConjSizes == {2 ^ e : e \in 1..MaxLog}

Seeds == 0..MaxLog

Cells(n) == (0..(n - 1)) \X (0..(n - 1))

\* a spectrum whose cells all differ
Spectrum(n, s) ==
    [c \in Cells(n) |-> <<c[1] + n * c[2] + s, ((c[1] * c[2] + s) % 3) - 1>>]

Conj(z) == <<z[1], -z[2]>>

\* the index of -k along one axis
Mirror(a, n) == (n - a) % n

\* the value an invocation loads from a cell; an image nothing has written
\* reads as zero here
Texel(f, c) == IF c \in DOMAIN f THEN f[c] ELSE <<0, 0>>

ConjKernel(hk, c, n) ==
    LET h == Texel(hk, c)
        m == Texel(hk, <<Mirror(c[1], n), Mirror(c[2], n)>>)
    IN  <<h[1], h[2], Conj(m)[1], Conj(m)[2]>>

\* the cell values the model keeps for an image
Field(x) == IF x = "spec_hk" THEN "hk" ELSE "h0"

InitConj ==
    /\ pc = "conj"
    /\ caller = "init"
    /\ step = 0
    /\ k = 0
    /\ args = NoArgs
    /\ size \in ConjSizes
    /\ log_size = 0
    /\ ping_pong = 0
    /\ i = 0
    /\ commands = <<>>
    /\ gpu = <<<<ConjSpecCmd>>>>
    /\ img = [NewImages EXCEPT !["spec_hk"] = Val("hk", 0, TRUE),
                               !["waves_data"] = Val("waves", 0, TRUE)]
    /\ executed = <<>>
    /\ called = <<>>
    /\ time = 0
    /\ dt = 0
    /\ inits = 1
    /\ \E s \in Seeds : grid = [hk |-> Spectrum(size, s), h0 |-> <<>>]
    /\ AppIdle

\* invocation number i of the dispatch computes its cell
ConjCell ==
    /\ pc = "conj"
    /\ i < size * size
    /\ LET c == <<i % size, i \div size>>
           src == Field(ConjSpecCmd.bind[1])
           dst == Field(ConjSpecCmd.bind[2])
       IN  grid' = [grid EXCEPT
                      ![dst] = [d \in DOMAIN grid[dst] \cup {c} |->
                                  IF d = c THEN ConjKernel(grid[src], c, size)
                                           ELSE grid[dst][d]]]
    /\ i' = i + 1
    /\ UNCHANGED <<pc, caller, step, k, args, size, log_size, ping_pong,
                   commands, gpu, img, executed, called, time, dt, inits,
                   app>>

\* the dispatch has completed
ConjFinish ==
    /\ pc = "conj"
    /\ i = size * size
    /\ pc' = "conj_done"
    /\ gpu' = <<>>
    /\ img' = Exec(ConjSpecCmd, img, step)
    /\ executed' = <<ConjSpecCmd>>
    /\ UNCHANGED <<caller, step, k, args, size, log_size, ping_pong, i,
                   commands, called, ext>>

NextConj == ConjCell \/ ConjFinish

SpecConj == InitConj /\ [][NextConj]_vars

\* ---- one call of run_ifft_2d when the grid size is any positive number
AnySizes == 1..(2 ^ MaxLog)

InitAnySize == InitCallWith(AnySizes)

SpecAnySize == InitAnySize /\ [][NextCall]_vars

\* ---- the spectrum is recomputed between steps: Simulation::init is the
\* one operation of the Simulation that computes spec_hk and spec_h0, so a
\* caller that has changed the wave parameters calls it again
Reinit ==
    /\ pc = "idle"
    /\ inits < MaxInits
    /\ pc' = "init_rec0"
    /\ UNCHANGED <<caller, step, k, args, size, log_size, ping_pong, i,
                   commands, gpu, img, executed, called, ext>>

NextReinit == Next \/ Reinit

SpecReinit == Init /\ [][NextReinit]_vars

\* ---- the event loop of main: every frame runs one simulation step and
\* then draws the water plane
DtValues == 0..MaxDt

\* renderer.init() has returned and the event loop starts
InitWait1F == Await("init_wait1", "frame")

\* delta_time is measured and renderer.run_sim(delta_time) is entered: the
\* time cursor advances by the elapsed time, then Simulation::run is called
RunSim ==
    /\ pc = "frame"
    /\ step < MaxSteps
    /\ \E d \in DtValues : dt' = d /\ time' = time + d
    /\ pc' = "idle"
    /\ UNCHANGED <<caller, step, k, args, size, log_size, ping_pong, i,
                   commands, gpu, img, executed, called, inits, grid,
                   app>>

\* Simulation::run returns into the frame
RunWait1F == Await("run_wait1", "render")

\* renderer.start(), render(&water_cache), finish(&mut previous_frame_end):
\* when an image was acquired the draw is submitted and flushed, and finish
\* returns without waiting for it
FrameFinish ==
    /\ pc = "render"
    /\ \E drawn \in BOOLEAN :
           gpu' = IF drawn THEN Append(gpu, <<DrawCmd>>) ELSE gpu
    /\ pc' = "frame"
    /\ UNCHANGED <<caller, step, k, args, size, log_size, ping_pong, i,
                   commands, img, executed, called, ext>>

NextFrame ==
    \/ InitRecord0 \/ InitSubmit0 \/ InitWait0
    \/ InitRecord1 \/ InitSubmit1 \/ InitWait1F
    \/ RunSim
    \/ RunRecord0 \/ RunSubmit0 \/ RunWait0 \/ RunCall
    \/ IfftBegin \/ IfftHorizontal \/ IfftVertical \/ IfftCopy
    \/ IfftPermute \/ IfftScale \/ IfftSubmit \/ IfftWait
    \/ RunRecord1 \/ RunSubmit1 \/ RunWait1F
    \/ FrameFinish
    \/ GpuExec \/ Panic

SpecFrame == Init /\ [][NextFrame]_vars

\* ---- the frame of the earlier renderer (render.rs) with the Simulation of
\* render/simulation.rs: the compute dispatches are recorded into the
\* command buffer of the frame, which finish submits without waiting
RENDER_TEXTURE_SIZE == 256

\* generate_h0_spectrum: spec_h0 at binding 0, param_buffer at binding 1
H0SpectrumCmd == Cmd("h0_spectrum", 0, 0, 0, <<"spec_h0">>, RENDER_TEXTURE_SIZE)

\* update_time_spectrum: spec_h0, spec_ht and time_buffer, whose content the
\* kernel reads
HtSpectrumCmd(t) ==
    [Cmd("ht_spectrum", 0, 0, 0, <<"spec_h0", "spec_ht">>,
         RENDER_TEXTURE_SIZE) EXCEPT !.t = t]

IsHtSpectrum(c) == c.op = "ht_spectrum"

\* self.time_buffer.write() returns Err while a submitted command buffer
\* that binds time_buffer has not completed
WriteLocked ==
    \E a \in 1..Len(gpu) : \E b \in 1..Len(gpu[a]) : IsHtSpectrum(gpu[a][b])

InitRender ==
    /\ pc = "stopped"
    /\ caller = "render"
    /\ step = 0
    /\ k = 0
    /\ args = NoArgs
    /\ size = RENDER_TEXTURE_SIZE
    /\ log_size = 0
    /\ ping_pong = 0
    /\ i = 0
    /\ commands = <<>>
    /\ gpu = <<>>
    /\ img = [x \in Images |-> Blank]
    /\ executed = <<>>
    /\ called = <<>>
    /\ time = 0
    /\ dt = 0
    /\ inits = 0
    /\ grid = NoGrid
    /\ AppIdle

\* Render::start: acquires the next image, creates the command buffer of
\* the frame and records generate_h0_spectrum into it
RenderStart ==
    /\ pc = "stopped"
    /\ step < MaxSteps
    /\ step' = step + 1
    /\ \E acquired \in BOOLEAN :
           IF acquired
           THEN /\ commands' = <<H0SpectrumCmd>>
                /\ pc' = "water"
           ELSE /\ commands' = <<>>
                /\ pc' = "stopped"
    /\ UNCHANGED <<caller, k, args, size, log_size, ping_pong, i, gpu, img,
                   executed, called, ext>>

\* update_time_spectrum(delta) called once in the frame
UpdateTimeSpectrum ==
    /\ pc = "water"
    /\ \E delta \in DtValues :
           /\ dt' = delta
           /\ time' = IF WriteLocked THEN time ELSE time + delta
    /\ commands' = Append(commands, HtSpectrumCmd(time'))
    /\ pc' = "finish"
    /\ UNCHANGED <<caller, step, k, args, size, log_size, ping_pong, i, gpu,
                   img, executed, called, inits, grid, app>>

\* Render::finish: then_execute, present, then_signal_fence_and_flush; the
\* future is kept in previous_frame_end and not waited for
RenderFinish ==
    /\ pc = "finish"
    /\ gpu' = Append(gpu, commands)
    /\ commands' = <<>>
    /\ pc' = "stopped"
    /\ UNCHANGED <<caller, step, k, args, size, log_size, ping_pong, i, img,
                   executed, called, ext>>

NextRender ==
    \/ RenderStart \/ UpdateTimeSpectrum \/ RenderFinish \/ GpuExec

SpecRender == InitRender /\ [][NextRender]_vars

\* ---- the application outside the simulation: nothing is recorded or
\* submitted by the simulation
Inert(p) ==
    /\ pc = p
    /\ caller = "main"
    /\ step = 0
    /\ k = 0
    /\ args = NoArgs
    /\ size = TEXTURE_SIZE
    /\ log_size = 0
    /\ ping_pong = 0
    /\ i = 0
    /\ commands = <<>>
    /\ gpu = <<>>
    /\ img = NewImages
    /\ executed = <<>>
    /\ called = <<>>
    /\ time = 0
    /\ dt = 0
    /\ inits = 0
    /\ grid = NoGrid

\* ---- the frame calls of the renderers, in any order.  Renderer
\* (renderer.rs) and Render (render.rs) have the same stage machine: Render
\* names the drawing stage Water, repeats the code of check_stage in start,
\* water and finish, and records generate_h0_spectrum in start.
Kinds == {"Renderer", "Render"}

DrawingStage(kind) == IF kind = "Renderer" THEN "Render" ELSE "Water"

\* recreate_swapchain: it succeeds, returns early (zero extent or
\* ImageExtentNotSupported) or panics on any other error
RecreateOutcomes == {"ok", "early", "error"}

\* acquire_next_image
AcquireOutcomes == {"ok", "out_of_date", "suboptimal", "error"}

\* then_signal_fence_and_flush
FlushOutcomes == {"ok", "out_of_date", "error"}

RecreateSwapchain_late(r, o) ==
    IF o = "ok"
    THEN [r EXCEPT !.stage = "Stopped", !.commands = None, !.pending = FALSE]
    ELSE [r EXCEPT !.pending = TRUE]

\* recreate_swapchain; pending records that a recreation has returned
\* early and none has succeeded since
RecreateSwapchain(r, o) ==
    [r EXCEPT !.stage = IF o = "ok" THEN "Stopped" ELSE "NeedsRedraw",
              !.commands = None,
              !.pending = (o # "ok")]

Mismatch_keep(r, o) == r

\* check_stage when the stage is not the expected one
Mismatch(r, o) ==
    LET q == IF r.stage = "NeedsRedraw" THEN RecreateSwapchain(r, o) ELSE r
    IN  [q EXCEPT !.stage = "Stopped", !.commands = None]

\* the command builder start creates
NewBuilder(kind) == IF kind = "Render" THEN <<H0SpectrumCmd>> ELSE <<>>

\* the renderer r after a call, with the record of the call: which it was,
\* whether it came out of order, and whether it acquired an image, recorded
\* a command or submitted (g is the queue after the call)
Mark(r, call, ooo, g) ==
    [r EXCEPT !.last = call,
              !.out_of_order = ooo,
              !.acted = \/ g # gpu
                        \/ r.commands # None /\ r.commands # rend.commands
                        \/ r.acquire_future /\ ~rend.acquire_future]

InitStage ==
    /\ Inert("stage")
    /\ rend \in {[NoRend EXCEPT !.kind = kd] : kd \in Kinds}
    /\ cam = NoCam
    /\ inputs = NoInput
    /\ water = NoWater

\* Renderer::start / Render::start
StageStart ==
    /\ pc = "stage"
    /\ \E o \in RecreateOutcomes, a \in AcquireOutcomes :
         IF rend.stage # "Stopped"
         THEN /\ rend' = Mark(Mismatch(rend, o), "start", TRUE, gpu)
              /\ pc' = IF rend.stage = "NeedsRedraw" /\ o = "error"
                       THEN "panicked" ELSE pc
              /\ step' = step
         ELSE LET r == [rend EXCEPT !.stage = DrawingStage(rend.kind)]
              IN  CASE a = "error" ->
                         /\ rend' = Mark(r, "start", FALSE, gpu)
                         /\ pc' = "panicked"
                         /\ step' = step
                    [] a \in {"out_of_date", "suboptimal"} ->
                         /\ rend' = Mark(RecreateSwapchain(r, o), "start",
                                         FALSE, gpu)
                         /\ pc' = IF o = "error" THEN "panicked" ELSE pc
                         /\ step' = step
                    [] OTHER ->
                         /\ step < MaxSteps
                         /\ step' = step + 1
                         /\ rend' = Mark([r EXCEPT
                                            !.commands = NewBuilder(r.kind),
                                            !.acquire_future = TRUE],
                                         "start", FALSE, gpu)
                         /\ pc' = pc
    /\ UNCHANGED <<caller, k, args, size, log_size, ping_pong, i, commands,
                   gpu, img, executed, called, time, dt, inits, grid, cam,
                   inputs, water>>

\* Renderer::render / Render::water
StageRender ==
    /\ pc = "stage"
    /\ \E o \in RecreateOutcomes :
         IF rend.stage # DrawingStage(rend.kind)
         THEN /\ rend' = Mark(Mismatch(rend, o), "render", TRUE, gpu)
              /\ pc' = IF rend.stage = "NeedsRedraw" /\ o = "error"
                       THEN "panicked" ELSE pc
         ELSE IF rend.commands = None
              THEN /\ pc' = "unwrap_none"
                   /\ rend' = rend
              ELSE /\ Len(rend.commands) <= MaxDraws
                   /\ rend' = Mark([rend EXCEPT
                                      !.commands = Append(@, DrawCmd)],
                                   "render", FALSE, gpu)
                   /\ pc' = pc
    /\ UNCHANGED <<caller, step, k, args, size, log_size, ping_pong, i,
                   commands, gpu, img, executed, called, time, dt, inits,
                   grid, cam, inputs, water>>

\* Renderer::finish / Render::finish
StageFinish ==
    /\ pc = "stage"
    /\ \E o \in RecreateOutcomes, f \in FlushOutcomes :
         IF rend.stage # DrawingStage(rend.kind)
         THEN /\ rend' = Mark(Mismatch(rend, o), "finish", TRUE, gpu)
              /\ pc' = IF rend.stage = "NeedsRedraw" /\ o = "error"
                       THEN "panicked" ELSE pc
              /\ gpu' = gpu
         ELSE IF rend.commands = None \/ ~rend.acquire_future
              THEN /\ pc' = "unwrap_none"
                   /\ rend' = rend
                   /\ gpu' = gpu
              ELSE LET r0 == [rend EXCEPT !.commands = None,
                                         !.acquire_future = FALSE]
                       r1 == IF f = "out_of_date"
                             THEN RecreateSwapchain(r0, o) ELSE r0
                       g  == IF f = "ok" THEN Append(gpu, rend.commands)
                                         ELSE gpu
                   IN  /\ gpu' = g
                       /\ rend' = Mark([r1 EXCEPT !.commands = None,
                                                  !.stage = "Stopped"],
                                       "finish", FALSE, g)
                       /\ pc' = IF f = "out_of_date" /\ o = "error"
                                THEN "panicked" ELSE pc
    /\ UNCHANGED <<caller, step, k, args, size, log_size, ping_pong, i,
                   commands, img, executed, called, time, dt, inits, grid,
                   cam, inputs, water>>

\* recreate_swapchain called by main on WindowEvent::Resized
StageRecreate ==
    /\ pc = "stage"
    /\ \E o \in RecreateOutcomes :
         /\ rend' = Mark(RecreateSwapchain(rend, o), "recreate", FALSE, gpu)
         /\ pc' = IF o = "error" THEN "panicked" ELSE pc
    /\ UNCHANGED <<caller, step, k, args, size, log_size, ping_pong, i,
                   commands, gpu, img, executed, called, time, dt, inits,
                   grid, cam, inputs, water>>

NextStage ==
    \/ StageStart \/ StageRender \/ StageFinish \/ StageRecreate
    \/ GpuExec

SpecStage == InitStage /\ [][NextStage]_vars

\* ------------------------------------------------------------ helpers
\* every command submitted and not yet executed
InFlight ==
    UNION {{gpu[a][b] : b \in 1..Len(gpu[a])} : a \in 1..Len(gpu)}

Recorded == {commands[p] : p \in 1..Len(commands)}

Executed == {executed[p] : p \in 1..Len(executed)}

IsMerger(c) == c.op = "merger"
IsFft(c) == c.op = "fft"
IsCopy(c) == c.op = "copy"
IsPermute(c) == c.op = "fft" /\ c.mode = MODE_PERMUTE
IsScale(c) == c.op = "fft" /\ c.mode = MODE_SCALE

Pos(cmds, P(_)) == {p \in 1..Len(cmds) : P(cmds[p])}

\* the butterfly stages of a command sequence: its butterfly dispatches,
\* a repeated dispatch of the same bound state counted as the same stage
RECURSIVE Collapse(_)
Collapse(q) ==
    IF Len(q) <= 1 THEN q
    ELSE IF q[1] = q[2] THEN Collapse(Tail(q))
         ELSE <<q[1]>> \o Collapse(Tail(q))

Stages(cmds) == Collapse(SelectSeq(cmds, IsButterfly))

InRun == step >= 1 /\ caller = "run"

\* ---------------------------------------------------------------- C1
\* C1: in a simulation step the time evolver executes first and writes the
\* four channels; a channel transform is begun only after it; the compositor
\* is recorded, submitted or executed only when all four channels hold their
\* fully transformed data of this step and no transform command is pending,
\* and it reads the four channels and writes the output maps.
C1_StageOrder ==
    InRun =>
      /\ \A p \in 1..Len(executed) : (executed[p].op = "time_spec") <=> (p = 1)
      /\ called # <<>> => /\ executed # <<>>
                          /\ Writes(executed[1]) = Channels
      /\ \A c \in Recorded \cup InFlight \cup Executed :
            IsMerger(c) =>
              /\ \A ch \in Channels :
                    /\ ch \in {called[j] : j \in 1..Len(called)}
                    /\ Transformed(img[ch], ch, step, c.size)
              /\ \A d \in Recorded \cup InFlight : ~IsFft(d)
              /\ Reads(c) = Channels
              /\ Writes(c) = {"displacement_map", "derivatives_map",
                              "turbulence_map"}
      /\ \A p \in 1..Len(executed) :
            IsMerger(executed[p]) => p = Len(executed)

C1_Witness ==
    /\ InRun
    /\ pc = "idle"
    /\ executed # <<>>
    /\ IsMerger(executed[Len(executed)])
    /\ Len(called) = 4

\* ---------------------------------------------------------------- C2
\* C2: a command buffer is submitted only when every earlier one has
\* completed: at most one command buffer is in flight, the host records or
\* submits nothing while one is, and no in-flight command reads or writes an
\* image that a command of another in-flight buffer writes.
C2_WaitBeforeNextSubmit ==
    /\ Len(gpu) <= 1
    /\ gpu # <<>> => pc \in {"init_wait0", "init_wait1", "run_wait0",
                             "ifft_wait", "run_wait1", "panicked"}
    /\ \A a, b \in 1..Len(gpu) :
          a # b =>
            \A x \in 1..Len(gpu[a]), y \in 1..Len(gpu[b]) :
                Writes(gpu[a][x]) \cap
                   (Reads(gpu[b][y]) \cup Writes(gpu[b][y])) = {}

C2_Witness ==
    /\ InRun
    /\ pc = "ifft_wait"
    /\ k = 2
    /\ gpu # <<>>
    /\ \E c \in InFlight : IsButterfly(c)

\* ---------------------------------------------------------------- C3
\* C3: the ping_pong flags of the butterfly stages recorded by one channel
\* transform are 1, 0, 1, 0, ... from the first horizontal to the last
\* vertical stage; every stage reads one of input and scratch and writes
\* the other, and the buffer a stage writes is the one the next stage reads.
C3_PingPongAlternates ==
    LET S == Stages(commands)
    IN  \A j \in 1..Len(S) :
          /\ S[j].pp = j % 2
          /\ {ReadBuf(S[j]), WriteBuf(S[j])} = {args.input, args.buffer}
          /\ ReadBuf(S[j]) # WriteBuf(S[j])
          /\ j < Len(S) => WriteBuf(S[j]) = ReadBuf(S[j + 1])

C3_Witness ==
    /\ pc = "ifft_copy"
    /\ log_size = 3
    /\ Len(Stages(commands)) = 6
    /\ Stages(commands)[3].mode = MODE_IH
    /\ Stages(commands)[4].mode = MODE_IV

\* ---------------------------------------------------------------- C4
\* C4: one channel transform records exactly log2(N) horizontal butterfly
\* dispatches with stages 0 .. log2(N)-1 in ascending order, followed by
\* exactly log2(N) vertical ones with the same stages; no stage is
\* dispatched more than once.
C4_EachStageDispatchedOnce ==
    pc = "ifft_copy" =>
      LET B == SelectSeq(commands, IsButterfly)
      IN  /\ Len(B) = 2 * log_size
          /\ \A j \in 1..log_size :
                /\ B[j].mode = MODE_IH /\ B[j].stage = j - 1
                /\ B[log_size + j].mode = MODE_IV
                /\ B[log_size + j].stage = j - 1

\* ---------------------------------------------------------------- C5
\* C5: a call with output_to_input = true returns with the transformed data
\* (all 2 * log2(N) stages applied) in the input image; a copy scratch ->
\* input is recorded, right after the last stage and before the permutation
\* pass, exactly when the last stage wrote the scratch buffer.
C5_ResultInInput ==
    (args.output_to_input
       /\ pc \in {"ifft_permute", "ifft_scale", "ifft_flush", "ifft_wait",
                  "returned"}) =>
      LET B == Pos(commands, IsButterfly)
          toInput == {p \in Pos(commands, IsCopy) :
                         commands[p].bind = <<args.buffer, args.input>>}
      IN  /\ pc = "returned" =>
                /\ img[args.input].ch = args.input
                /\ img[args.input].n = 2 * log_size
          /\ pc \in {"ifft_permute", "ifft_scale", "ifft_flush"} =>
                /\ Pos(commands, IsCopy) = toInput
                /\ \A p \in toInput :
                      /\ p - 1 \in B
                      /\ \A q \in B : q < p
                /\ (\E p \in B : \A q \in B : q <= p)
                     => LET last == CHOOSE p \in B : \A q \in B : q <= p
                        IN  /\ WriteBuf(commands[last]) = args.buffer
                                 <=> toInput # {}
                            /\ WriteBuf(commands[last]) = args.input
                                 => Pos(commands, IsCopy) = {}
                /\ B = {} => toInput = {}
                /\ \A p \in toInput : \A q \in Pos(commands, IsPermute) : p < q

C5_Witness ==
    /\ pc = "returned"
    /\ args.output_to_input
    /\ log_size >= 2
    /\ img[args.input].n = 2 * log_size
    /\ Pos(executed, IsCopy) = {}

\* ---------------------------------------------------------------- C6
\* C6: in a channel transform the permutation pass is recorded once when
\* permute is set and never otherwise, after every butterfly dispatch and
\* after the copy; the scale pass is recorded once when scale is set and never
\* otherwise, after the permutation pass; so neither lies between two
\* butterfly dispatches.
C6_PermuteThenScale ==
    LET B == Pos(commands, IsButterfly)
        C == Pos(commands, IsCopy)
        P == Pos(commands, IsPermute)
        S == Pos(commands, IsScale)
    IN  /\ \A p \in P : \A q \in B \cup C : q < p
        /\ \A p \in S : \A q \in B \cup C \cup P : q < p
        /\ Cardinality(P) <= 1
        /\ Cardinality(S) <= 1
        /\ pc = "ifft_flush" =>
              /\ (P # {}) <=> args.permute
              /\ (S # {}) <=> args.scale
        /\ (pc = "returned" /\ caller = "call") =>
              /\ img[args.input].perm <=> args.permute
              /\ img[args.input].scal <=> args.scale

C6_Witness ==
    /\ pc = "ifft_flush"
    /\ log_size >= 2
    /\ args.permute
    /\ args.scale
    /\ ~args.output_to_input
    /\ Pos(commands, IsCopy) # {}
    /\ Pos(commands, IsPermute) # {}
    /\ Pos(commands, IsScale) # {}

\* ---------------------------------------------------------------- C7
\* C7: a simulation step calls run_ifft_2d once for each of the four
\* channels, none twice and none skipped; when a call has returned the
\* channel's own image holds its transformed data, and these are the images
\* the compositor reads, so the maps it writes are composed of all four.
C7_FourTransforms ==
    InRun =>
      /\ \A a, b \in 1..Len(called) : called[a] = called[b] => a = b
      /\ \A a \in 1..Len(called) : called[a] \in Channels
      /\ pc = "run_call" =>
            /\ Len(called) = k - 1
            /\ \A a \in 1..Len(called) :
                  Transformed(img[called[a]], called[a], step, TEXTURE_SIZE)
      /\ (\E c \in Recorded \cup InFlight \cup Executed : IsMerger(c)) =>
            /\ Len(called) = 4
            /\ {called[a] : a \in 1..4} = Reads(MergerCmd)
      /\ (pc = "idle") =>
            \A m \in Writes(MergerCmd) : img[m] = Val("merged", step, TRUE)

C7_Witness ==
    /\ InRun
    /\ pc = "idle"
    /\ step = 2
    /\ called = <<"dx_dz", "dy_dxz", "dyx_dyz", "dxx_dzz">>
    /\ img["displacement_map"] = Val("merged", 2, TRUE)

\* ---------------------------------------------------------------- C8
\* C8: the commands in flight that bind the scratch buffer all belong to
\* the transform of one channel, and while they are in flight the host is
\* not recording a transform of another channel.
ScratchUsers(cs) ==
    {c.bind[2] : c \in {d \in cs : IsFft(d) /\ d.bind[3] = "buffer"}}
      \cup {c.bind[1] : c \in {d \in cs : IsCopy(d) /\ d.bind[2] = "buffer"}}
      \cup {c.bind[2] : c \in {d \in cs : IsCopy(d) /\ d.bind[1] = "buffer"}}

C8_ScratchExclusive ==
    /\ Cardinality(ScratchUsers(InFlight)) <= 1
    /\ ScratchUsers(InFlight) # {} =>
          ScratchUsers(Recorded) \subseteq ScratchUsers(InFlight)
    /\ ScratchUsers(InFlight) # {} => ScratchUsers(InFlight) = {args.input}

C8_Witness ==
    /\ InRun
    /\ pc = "ifft_wait"
    /\ k = 3
    /\ ScratchUsers(InFlight) = {"dyx_dyz"}
    /\ img["dy_dxz"].n = 2 * log_size

\* ---------------------------------------------------------------- C9
\* C9: in every state, also after a failure at any point of a step, the
\* three maps the compositor writes were last written by the same step:
\* all three by the current step or none of them.
OutputMaps == {"displacement_map", "derivatives_map", "turbulence_map"}

UpdatedInStep(m) == img[m].ch = "merged" /\ img[m].step = step

C9_AllOrNone ==
    InRun =>
      \/ \A m \in OutputMaps : UpdatedInStep(m)
      \/ \A m \in OutputMaps : ~UpdatedInStep(m) /\ img[m].step = step - 1

C9_Witness ==
    /\ InRun
    /\ pc = "panicked"
    /\ step = 2
    /\ gpu = <<>>
    /\ Len(called) = 3
    /\ \A m \in OutputMaps : img[m] = Val("merged", 1, TRUE)

\* ---------------------------------------------------------------- C10
\* C10: after every completed step the displacement map, the derivatives
\* map and the foam map that the renderer samples have been written by the
\* compositor in that step.
RendererMaps == {"displacement_map", "derivatives_map", "foam_map"}

C10_RendererMapsWritten ==
    (InRun /\ pc = "idle") =>
      \A m \in RendererMaps : UpdatedInStep(m)

\* ---- the camera and the input manager of the engine.  Angles are counted
\* in units of 0.0001 rad; the position of the camera is not tracked, only
\* that a movement sets is_changed.
FRAC_PI_2 == 15708

\* ROTATE_SPEED = 0.01 rad per unit of mouse motion
ROTATE_SPEED == 100

\* let pitch_limit = std::f32::consts::FRAC_PI_2 - 0.01
PITCH_LIMIT == FRAC_PI_2 - 100

Clamp_upper(p) == IF p > PITCH_LIMIT THEN PITCH_LIMIT ELSE p

\* the clamp of Camera::rotate
Clamp(p) ==
    IF p > PITCH_LIMIT THEN PITCH_LIMIT
    ELSE IF p < 0 - PITCH_LIMIT THEN 0 - PITCH_LIMIT
    ELSE p

\* Camera::rotate
Rotate(c, delta_yaw, delta_pitch) ==
    [c EXCEPT !.yaw = c.yaw + delta_yaw,
              !.pitch = Clamp(c.pitch - delta_pitch),
              !.is_changed = TRUE]

\* Action::from_key_code
FromKeyCode(keycode) ==
    CASE keycode = "W" -> "MoveForward"
      [] keycode = "S" -> "MoveBackward"
      [] keycode = "A" -> "MoveLeft"
      [] keycode = "D" -> "MoveRight"
      [] keycode = "Space" -> "MoveUp"
      [] keycode = "LShift" -> "MoveDown"
      [] keycode = "Escape" -> "ShutDown"
      [] OTHER -> None

MoveActions ==
    {"MoveForward", "MoveBackward", "MoveLeft", "MoveRight", "MoveUp",
     "MoveDown"}

\* the key codes, deltas of direct rotate calls and mouse deltas tried
CameraKeys == {"W", "Escape", "Q"}
RotateDeltas == {0 - MaxDelta, 1, MaxDelta}
MouseDeltas == {0 - MaxMouse, 0, 1}

InitCamera ==
    /\ Inert("engine")
    /\ rend = NoRend
    /\ cam = NoCam
    /\ inputs = NoInput
    /\ water = NoWater

\* InputManager::on_event; fresh records that a MouseMoved event has
\* arrived that no tick has applied yet
OnEvent ==
    /\ pc = "engine"
    /\ step < MaxCalls
    /\ step' = step + 1
    /\ \/ \E keycode \in CameraKeys, pressed \in BOOLEAN :
            LET action == FromKeyCode(keycode)
            IN  inputs' =
                  IF action = None THEN inputs
                  ELSE IF pressed
                       THEN [inputs EXCEPT !.actions = @ \cup {action}]
                       ELSE [inputs EXCEPT !.actions = @ \ {action}]
       \/ \E delta_x \in MouseDeltas, delta_y \in MouseDeltas :
            inputs' = [inputs EXCEPT !.mouse_delta = <<delta_x, delta_y>>,
                                     !.fresh = TRUE]
    /\ UNCHANGED <<pc, caller, k, args, size, log_size, ping_pong, i,
                   commands, gpu, img, executed, called, time, dt, inits,
                   grid, rend, cam, water>>

\* Engine::tick: exits on ShutDown, else Camera::tick
EngineTick ==
    /\ pc = "engine"
    /\ step < MaxCalls
    /\ step' = step + 1
    /\ IF "ShutDown" \in inputs.actions
       THEN /\ pc' = "exited"
            /\ UNCHANGED <<cam, inputs>>
       ELSE LET moved == inputs.actions \cap MoveActions # {}
                c0 == [cam EXCEPT !.is_changed = @ \/ moved,
                                  !.last = "tick"]
                delta_x == inputs.mouse_delta[1]
                delta_y == inputs.mouse_delta[2]
            IN  /\ cam' = IF delta_x # 0 \/ delta_y # 0
                          THEN Rotate(c0, delta_x * ROTATE_SPEED,
                                      delta_y * ROTATE_SPEED)
                          ELSE c0
                /\ inputs' = [inputs EXCEPT !.fresh = FALSE]
                /\ pc' = pc
    /\ UNCHANGED <<caller, k, args, size, log_size, ping_pong, i, commands,
                   gpu, img, executed, called, time, dt, inits, grid, rend,
                   water>>

\* a call of Camera::rotate
CameraRotate ==
    /\ pc = "engine"
    /\ step < MaxCalls
    /\ step' = step + 1
    /\ \E delta_yaw \in RotateDeltas, delta_pitch \in RotateDeltas :
          cam' = [Rotate(cam, delta_yaw, delta_pitch) EXCEPT !.last = "rotate"]
    /\ UNCHANGED <<pc, caller, k, args, size, log_size, ping_pong, i,
                   commands, gpu, img, executed, called, time, dt, inits,
                   grid, rend, inputs, water>>

\* Camera::update_matrices: returns at once when is_changed is false, else
\* computes inv_proj and inv_view; computed counts the computations
UpdateMatrices ==
    /\ pc = "engine"
    /\ step < MaxCalls
    /\ step' = step + 1
    /\ cam' = IF ~cam.is_changed
              THEN [cam EXCEPT !.last = "update"]
              ELSE [cam EXCEPT !.computed = @ + 1, !.last = "update"]
    /\ UNCHANGED <<pc, caller, k, args, size, log_size, ping_pong, i,
                   commands, gpu, img, executed, called, time, dt, inits,
                   grid, rend, inputs, water>>

NextCamera == OnEvent \/ EngineTick \/ CameraRotate \/ UpdateMatrices

SpecCamera == InitCamera /\ [][NextCamera]_vars

\* ---- the key handling of main: held is the set of the keys that are
\* physically down, move_dir the vector main keeps.
Keys == {"W", "S", "A", "D", "Space", "LShift", "Escape", "Q"}

\* the match on (keycode, state) of the event loop
KeyboardInput(move_dir, keycode, pressed) ==
    CASE keycode = "W" -> [move_dir EXCEPT !.y = IF pressed THEN 1 ELSE 0]
      [] keycode = "S" -> [move_dir EXCEPT !.y = IF pressed THEN 0 - 1 ELSE 0]
      [] keycode = "A" -> [move_dir EXCEPT !.x = IF pressed THEN 0 - 1 ELSE 0]
      [] keycode = "D" -> [move_dir EXCEPT !.x = IF pressed THEN 1 ELSE 0]
      [] keycode = "Space" ->
           [move_dir EXCEPT !.z = IF pressed THEN 1 ELSE 0]
      [] keycode = "LShift" ->
           [move_dir EXCEPT !.z = IF pressed THEN 0 - 1 ELSE 0]
      [] OTHER -> move_dir

InitKeys ==
    /\ Inert("keys")
    /\ rend = NoRend
    /\ cam = NoCam
    /\ inputs = NoInput
    /\ water = NoWater

\* a key goes down, or repeats while it is held
KeyPressed ==
    /\ pc = "keys"
    /\ \E keycode \in Keys :
          /\ inputs' = [inputs EXCEPT
                          !.held = @ \cup {keycode},
                          !.move_dir = KeyboardInput(@, keycode, TRUE)]
          /\ pc' = IF keycode = "Escape" THEN "exit" ELSE pc
    /\ UNCHANGED <<caller, step, k, args, size, log_size, ping_pong, i,
                   commands, gpu, img, executed, called, time, dt, inits,
                   grid, rend, cam, water>>

\* a key that is held goes up
KeyReleased ==
    /\ pc = "keys"
    /\ \E keycode \in inputs.held :
          /\ inputs' = [inputs EXCEPT
                          !.held = @ \ {keycode},
                          !.move_dir = KeyboardInput(@, keycode, FALSE)]
          /\ pc' = IF keycode = "Escape" THEN "exit" ELSE pc
    /\ UNCHANGED <<caller, step, k, args, size, log_size, ping_pong, i,
                   commands, gpu, img, executed, called, time, dt, inits,
                   grid, rend, cam, water>>

NextKeys == KeyPressed \/ KeyReleased

SpecKeys == InitKeys /\ [][NextKeys]_vars

\* ---- Water::get_draw_batches.  An instance is known by its index in
\* instances and modelled by its res; a batch is a sequence of indices.
ResValues == 1..MaxRes

\* HashMap::insert: the value of a key that is present is replaced
Insert(map, key, value) ==
    [r \in DOMAIN map \cup {key} |-> IF r = key THEN value ELSE map[r]]

RECURSIVE CollectBatches(_, _)
\* the collect() into a HashMap of the pairs (instance.res, vec![instance])
\* of the first n instances, in the order of the iterator
CollectBatches(instances, n) ==
    IF n = 0 THEN <<>>
    ELSE Insert(CollectBatches(instances, n - 1), instances[n], <<n>>)

InitWater ==
    /\ Inert("water")
    /\ rend = NoRend
    /\ cam = NoCam
    /\ inputs = NoInput
    /\ \E n \in 0..MaxInstances :
          \E instances \in [1..n -> ResValues] :
             water = [NoWater EXCEPT !.instances = instances]

GetDrawBatches ==
    /\ pc = "water"
    /\ pc' = "batches"
    /\ water' = [water EXCEPT !.batches =
                    CollectBatches(water.instances, Len(water.instances))]
    /\ UNCHANGED <<caller, step, k, args, size, log_size, ping_pong, i,
                   commands, gpu, img, executed, called, time, dt, inits,
                   grid, rend, cam, inputs>>

NextWater == GetDrawBatches

SpecWater == InitWater /\ [][NextWater]_vars

IsDraw(c) == c.op = "draw"

\* C11: the draw of a frame samples the output maps only between steps: at
\* no time is a draw in flight on the queue together with a submitted
\* command that writes one of the maps the draw reads.
C11_NoWriteWhileDrawn ==
    \A d \in InFlight :
        IsDraw(d) => \A c \in InFlight : Writes(c) \cap Reads(d) = {}

\* the draw of frame 1 is still in flight when step 2 has submitted its
\* first command buffer and waits for it
C11_Witness ==
    /\ step = 2
    /\ pc = "run_wait0"
    /\ \E d \in InFlight : IsDraw(d)
    /\ \E c \in InFlight : c.op = "time_spec"

\* C12: the time cursor advances in every step by the elapsed time of the
\* step: whenever a step with a positive elapsed time hands the time to the
\* time evolver, the cursor is greater than it was in the step before.
C12_TimeAdvances ==
    [][(pc = "water" /\ pc' = "finish" /\ dt' > 0) => time' > time]_vars

\* C13: the time parameter a step passes to the compositor is the elapsed
\* time of that step: the dlt push constant of the merger dispatch the step
\* records and submits equals delta_time of the frame.
C13_MergerGetsDt ==
    \A c \in Recorded \cup InFlight : IsMerger(c) => c.t = dt

\* the dispatches of Simulation::init in the order they are recorded
InitSequence == <<InitSpecCmd, FftInitCmd, ConjSpecCmd>>

IsInit(c) == c.op \in {"init_spec", "fft_init", "conj_spec"}

C15_H0ComputedOnce ==
    Cardinality({p \in 1..Len(executed) :
                    "spec_h0" \in Writes(executed[p])}) <= 1

\* C16: recomputing the spectrum leaves the table and the noise alone: once
\* the first initialization is over, no dispatch that is recorded or in
\* flight writes precomputed_data or noise_image.
C16_RecomputeKeepsTable ==
    inits >= 2 =>
        \A c \in Recorded \cup InFlight :
            Writes(c) \cap {"precomputed_data", "noise_image"} = {}

IsPow2(n) == \E e \in 0..Log2Floor(n) : 2 ^ e = n

C18_SizesAgree ==
    \A c \in Recorded \cup InFlight \cup Executed :
        IsFft(c) =>
            /\ \A j \in 1..3 : ImageSide(c.bind[j]) = c.size
            /\ img[c.bind[1]].ch = "table"
            /\ img[c.bind[1]].n = c.size

\* the device has executed butterfly stages and the permutation of a
\* transform
C18_Witness ==
    /\ \E c \in Executed : IsButterfly(c)
    /\ \E c \in Executed : IsPermute(c)

\* the cell of -k for the cell c of k, on a grid of side n
NegK(c, n) == <<(0 - c[1]) % n, (0 - c[2]) % n>>

C20_NoiseIsNxN ==
    /\ pc # "panicked"
    /\ pc = "noise_done" => i \div size = size /\ i % size = 0

\* C21: for every power-of-two size the ping_pong flag is 0 once both
\* butterfly loops are over, so no copy scratch -> input is ever recorded,
\* and the copy input -> scratch is recorded, once, exactly when
\* output_to_input is false; a transform records at most one copy.
C21_FlagZeroAfterStages ==
    /\ pc \in {"ifft_copy", "ifft_permute", "ifft_scale", "ifft_flush"} =>
          /\ ping_pong = 0
          /\ Len(Stages(commands)) = 2 * log_size
    /\ \A c \in Recorded \cup InFlight \cup Executed :
          IsCopy(c) => c.bind = <<args.input, args.buffer>>
    /\ pc \in {"ifft_permute", "ifft_scale", "ifft_flush"} =>
          /\ Cardinality(Pos(commands, IsCopy)) <= 1
          /\ Pos(commands, IsCopy) # {} <=> ~args.output_to_input

\* a transform of several stages that was asked to leave its result in the
\* scratch buffer has recorded its copy
C21_Witness ==
    /\ pc = "ifft_flush"
    /\ log_size >= 2
    /\ ~args.output_to_input
    /\ Pos(commands, IsCopy) # {}

\* C22: in both renderers, after any sequence of start, render / water,
\* finish and recreate_swapchain calls, a command builder and an acquire
\* future are present whenever the stage is the drawing stage, and no call
\* unwraps a missing builder or acquire future.
C22_BuilderInDrawingStage ==
    /\ pc # "unwrap_none"
    /\ (pc = "stage" /\ rend.stage = DrawingStage(rend.kind)) =>
          /\ rend.commands # None
          /\ rend.acquire_future

\* a frame is started, with a draw recorded, after a recreation has
\* returned early
C22_Witness ==
    /\ pc = "stage"
    /\ rend.stage = DrawingStage(rend.kind)
    /\ rend.pending
    /\ rend.last = "render"

\* C23: a frame call made out of order (render or finish with no frame
\* started, start with a frame started) acquires, records and submits
\* nothing and leaves the stage Stopped and the builder absent; after
\* every finish the stage is Stopped and the builder absent.
C23_OutOfOrderStops ==
    pc = "stage" =>
      /\ rend.out_of_order =>
            /\ rend.stage = "Stopped"
            /\ rend.commands = None
            /\ ~rend.acted
      /\ rend.last = "finish" =>
            /\ rend.stage = "Stopped"
            /\ rend.commands = None

\* start was called while a frame was started, with its image acquired
C23_Witness ==
    /\ pc = "stage"
    /\ rend.last = "start"
    /\ rend.out_of_order
    /\ rend.acquire_future

\* C24: once a recreation of the swapchain has returned early, the stage
\* is NeedsRedraw until a recreation succeeds.
C24_StaysNeedsRedraw ==
    (pc = "stage" /\ rend.pending) => rend.stage = "NeedsRedraw"

\* C25: after any sequence of rotations the pitch lies within
\* [-(pi/2 - 0.01), pi/2 - 0.01]; the yaw is never clamped: a rotate call
\* adds its delta to the yaw whatever the yaw is.
C25_PitchClamped ==
    /\ [](cam.pitch <= PITCH_LIMIT /\ cam.pitch >= 0 - PITCH_LIMIT)
    /\ [][cam'.last = "rotate" /\ cam' # cam =>
            \E delta \in RotateDeltas : cam'.yaw = cam.yaw + delta]_vars

\* the pitch sits at the lower limit after a rotation beyond it, and the
\* yaw is beyond a full half turn
C25_Witness ==
    /\ cam.last = "rotate"
    /\ cam.pitch = 0 - PITCH_LIMIT
    /\ cam.yaw > 2 * FRAC_PI_2

\* C26: once a tick has applied a MouseMoved event, a further tick with no
\* new mouse event leaves the yaw and the pitch of the camera unchanged.
C26_MouseAppliedOnce ==
    [][(cam'.last = "tick" /\ cam' # cam /\ ~inputs.fresh) =>
         (cam'.yaw = cam.yaw /\ cam'.pitch = cam.pitch)]_vars

\* C28: a call of update_matrices clears the changed flag of the camera.
C28_UpdateClearsChanged == cam.last = "update" => ~cam.is_changed

\* the opposing pairs: the key of +1, the key of -1, the component
Pairs ==
    {<<"W", "S", "y">>, <<"D", "A", "x">>, <<"Space", "LShift", "z">>}

\* C27: whenever exactly one key of an opposing pair (W/S, A/D,
\* Space/LShift) is held, the component of move_dir of the pair is the
\* direction of that key, and it is 0 when neither key is held.
C27_MoveDirFollowsKeys ==
    \A p \in Pairs :
        LET plus == p[1] \in inputs.held
            minus == p[2] \in inputs.held
            v == inputs.move_dir[p[3]]
        IN  /\ (plus /\ ~minus) => v = 1
            /\ (minus /\ ~plus) => v = 0 - 1
            /\ (~plus /\ ~minus) => v = 0

\* the places of instance j in the batches
PlacesOf(j) ==
    {p \in (DOMAIN water.batches) \X (1..(MaxInstances + 1)) :
        /\ p[2] <= Len(water.batches[p[1]])
        /\ water.batches[p[1]][p[2]] = j}

\* C29: get_draw_batches returns every instance in exactly one batch, the
\* batch of its res: the batch of r holds all the instances of res r and the
\* batches hold as many instances as the water has.
C29_EveryInstanceBatched ==
    pc = "batches" =>
        \A j \in 1..Len(water.instances) :
            /\ Cardinality(PlacesOf(j)) = 1
            /\ \A p \in PlacesOf(j) : p[1] = water.instances[j]

====
